---------------------------- MODULE Spec2Model ----------------------------
(***************************************************************************)
(* A model of app/pr_review_agent.py: one run of main() against a pull     *)
(* request held by the Source Control Gateway (PyGithub) with the          *)
(* Completion Service (OpenAI) answering two calls, and successive runs    *)
(* of the agent on the same pull request.                                  *)
(*                                                                         *)
(* Text is a sequence of chunks [s, n]: the first n characters of the      *)
(* source text s.  Lengths and prefix cuts are exact; the marker glyph     *)
(* U+1F916 is always a chunk of its own, written MARKER.                   *)
(***************************************************************************)
EXTENDS Integers, Sequences, FiniteSets, TLC

\* ------------------------------------------------------------ constants
MAX_INPUT_LENGTH == 30000

LINES_CHANGE_THRESHOLD == 10

MARKER == "ROBOT"

\* -------------------------------------------------------------- bounds
\* files in one gateway file list
MaxFiles == 2

\* entries in the array the Completion Service returns
MaxSuggestions == 2

\* reviews already on the pull request when a single run starts
MaxReviews == 2

\* successive runs of the agent on one pull request
MaxRuns == 2

\* ---------------------------------------------------------------- text
Chunk(s, n) == [s |-> s, n |-> n]

RECURSIVE TextLen(_)
TextLen(t) == IF t = <<>> THEN 0 ELSE Head(t).n + TextLen(Tail(t))

\* t[:k]
RECURSIVE Truncate(_, _)
Truncate(t, k) ==
    IF t = <<>> \/ k <= 0 THEN <<>>
    ELSE IF Head(t).n <= k
         THEN <<Head(t)>> \o Truncate(Tail(t), k - Head(t).n)
         ELSE <<Chunk(Head(t).s, k)>>

IsSpace(c) == c.n = 0 \/ c.s \in {"\n", "\n\n", " "}

\* t.strip() = ""
StripIsEmpty(t) == \A i \in DOMAIN t : IsSpace(t[i])

\* MARKER in t
Contains(t, glyph) == \E i \in DOMAIN t : t[i].s = glyph /\ t[i].n >= 1

SeqsUpTo(S, n) == UNION {[1..k -> S] : k \in 0..n}

RECURSIVE Flatten(_)
Flatten(ss) == IF ss = <<>> THEN <<>> ELSE Head(ss) \o Flatten(Tail(ss))

NoRepeat(s) == \A i, j \in DOMAIN s : i # j => s[i] # s[j]

\* ------------------------------------------------------- gateway data
ChangedFile(fn, st, p, a, d) ==
    [filename |-> fn, status |-> st, patch |-> p, additions |-> a, deletions |-> d]

FileA == ChangedFile("a.py", "modified", <<Chunk("@@ -1,7 +1,7 @@", 120)>>, 5, 5)

FileB == ChangedFile("b.py", "added", <<Chunk("@@ -0,0 +1 @@", 29900)>>, 1, 0)

FilePool == {FileA, FileB}

\* a gateway file list names each file once
FileLists == {fl \in SeqsUpTo(FilePool, MaxFiles) : NoRepeat(fl)}

Commits == {1, 2}

LatestCommit == CHOOSE c \in Commits : \A d \in Commits : d <= c

Review(i, b, t, c) == [id |-> i, body |-> b, submitted_at |-> t, commit_id |-> c]

\* Python's None where a review is expected
None == Review(0, <<>>, 0, 0)

HumanBody == <<Chunk("Looks good to me", 16)>>

ReviewHeader == <<Chunk("## ", 3), Chunk(MARKER, 1), Chunk(" PR Review Agent Suggestion", 27), Chunk("\n\n", 2)>>

Narratives == {<<Chunk("1. **Summary of the PR**", 24)>>}

AgentBody == ReviewHeader \o <<Chunk("1. **Summary of the PR**", 24)>>

\* reviews found on the pull request: body, submitted_at, commit_id
ReviewPool == {<<HumanBody, 2, 1>>, <<AgentBody, 1, 1>>, <<AgentBody, 2, 2>>}

WithIds(l) == [i \in DOMAIN l |-> Review(i, l[i][1], l[i][2], l[i][3])]

ReviewLists == {WithIds(l) : l \in SeqsUpTo(ReviewPool, MaxReviews)}

RECURSIVE MaxSubmitted(_)
MaxSubmitted(revs) ==
    IF revs = <<>> THEN 0
    ELSE LET m == MaxSubmitted(Tail(revs))
         IN IF Head(revs).submitted_at > m THEN Head(revs).submitted_at ELSE m

\* ------------------------------------------- completion service data
\* a JSON value as Python holds it: None/null, str (n characters), int, list
JNone == [t |-> "null", s |-> "", n |-> 0]

JStr(s, n) == [t |-> "str", s |-> s, n |-> n]

JInt(n) == [t |-> "int", s |-> "", n |-> n]

JList(n) == [t |-> "list", s |-> "", n |-> n]

\* Python truthiness of a JSON value
Truthy(v) ==
    CASE v.t = "null" -> FALSE
      [] v.t = "str" -> v.n # 0
      [] v.t = "int" -> v.n # 0
      [] v.t = "list" -> v.n # 0

\* a list is unhashable: `filename in pr_files` raises TypeError
Hashable(v) == v.t # "list"

SuggestionKeys == {"file", "line", "suggestion", "explanation"}

\* one element of the parsed array: a dict with some of the keys, or not a dict
Dict(keys, f, l, s, x) ==
    [isdict |-> TRUE, keys |-> keys,
     val |-> [file |-> f, line |-> l, suggestion |-> s, explanation |-> x]]

NotADict == [isdict |-> FALSE, keys |-> {},
             val |-> [file |-> JNone, line |-> JNone, suggestion |-> JNone, explanation |-> JNone]]

\* suggestion.get(k) and suggestion.get(k, default)
Get(e, k, default) == IF k \in e.keys THEN e.val[k] ELSE default

SValid == Dict(SuggestionKeys, JStr("a.py", 4), JInt(3), JStr("use x", 5), JStr("why", 3))

SAbsent == Dict(SuggestionKeys, JStr("z.py", 4), JInt(7), JStr("use y", 5), JStr("why", 3))

SNoLine == Dict({"file", "suggestion"}, JStr("a.py", 4), JNone, JStr("use x", 5), JNone)

SuggestionPool == {SValid, SAbsent, SNoLine, NotADict}

\* the text of a completion: unparsable, a JSON value that is no array, or an array
JsonText(parses, isarray, items) == [parses |-> parses, isarray |-> isarray, items |-> items]

\* "not json"
NotJson == JsonText(FALSE, FALSE, <<>>)

\* one object outside any array: it parses, and isinstance(suggestions, list) is false
BareObject == JsonText(TRUE, FALSE, <<SValid>>)

SuggestionTexts ==
    {NotJson, BareObject}
    \cup {JsonText(TRUE, TRUE, l) : l \in SeqsUpTo(SuggestionPool, MaxSuggestions)}

\* ------------------------------------------------------ pure functions
\* f"Filename: {file.filename}\nStatus: {file.status}\nPatch (diff):\n{file.patch}\n"
StrLen(s) ==
    CASE s = "modified" -> 8
      [] s = "added" -> 5
      [] OTHER -> 4

FileBlock(f) ==
    <<Chunk("Filename: ", 10), Chunk(f.filename, StrLen(f.filename)), Chunk("\n", 1),
      Chunk("Status: ", 8), Chunk(f.status, StrLen(f.status)), Chunk("\n", 1),
      Chunk("Patch (diff):\n", 14)>> \o f.patch \o <<Chunk("\n", 1)>>

\* "----" * 10 + "\n"
Separator == <<Chunk("----------------------------------------\n", 41)>>

\* mutant: the payload is returned whole
PrDiffUntruncated(files) ==
    LET blocks == [idx \in DOMAIN files |->
                    FileBlock(files[idx]) \o
                    (IF idx - 1 < Len(files) - 1 THEN Separator ELSE <<>>)]
    IN Flatten(blocks)

\* get_pr_diff, given list(pr.get_files())
PrDiff(files) ==
    LET blocks == [idx \in DOMAIN files |->
                    FileBlock(files[idx]) \o
                    (IF idx - 1 < Len(files) - 1 THEN Separator ELSE <<>>)]
    IN Truncate(Flatten(blocks), MAX_INPUT_LENGTH)

\* mutant: the separator also follows the last file
DiffSinceTrailingSeparator(files) ==
    LET blocks == [idx \in DOMAIN files |-> FileBlock(files[idx]) \o Separator]
    IN Truncate(Flatten(blocks), MAX_INPUT_LENGTH)

\* the rendering loop of get_diff_since_prev_review, given comparison.files
DiffSince(files) ==
    LET blocks == [idx \in DOMAIN files |->
                    FileBlock(files[idx]) \o
                    (IF idx - 1 < Len(files) - 1 THEN Separator ELSE <<>>)]
    IN Truncate(Flatten(blocks), MAX_INPUT_LENGTH)

\* mutant: the fold with >=, so that the last of several equal timestamps wins
RECURSIVE LatestFromLastWins(_, _)
LatestFromLastWins(revs, latest_agent_review) ==
    IF revs = <<>> THEN latest_agent_review
    ELSE LET review == Head(revs)
         IN LatestFromLastWins(Tail(revs),
                IF Contains(review.body, MARKER)
                   /\ (latest_agent_review = None
                       \/ review.submitted_at >= latest_agent_review.submitted_at)
                THEN review ELSE latest_agent_review)

\* the fold of check_existing_agent_review over the reviews in list order
RECURSIVE LatestFrom(_, _)
LatestFrom(revs, latest_agent_review) ==
    IF revs = <<>> THEN latest_agent_review
    ELSE LET review == Head(revs)
         IN LatestFrom(Tail(revs),
                IF Contains(review.body, MARKER)
                   /\ (latest_agent_review = None
                       \/ review.submitted_at > latest_agent_review.submitted_at)
                THEN review ELSE latest_agent_review)

\* check_existing_agent_review: ok is whether pr.get_reviews() answered
check_existing_agent_review(ok, revs) == IF ok THEN LatestFrom(revs, None) ELSE None

\* mutant: the deletions are left out of the total
RECURSIVE TotalAdditions(_)
TotalAdditions(files) ==
    IF files = <<>> THEN 0
    ELSE Head(files).additions + TotalAdditions(Tail(files))

\* total_additions + total_deletions over comparison.files
RECURSIVE TotalChanges(_)
TotalChanges(files) ==
    IF files = <<>> THEN 0
    ELSE Head(files).additions + Head(files).deletions + TotalChanges(Tail(files))

\* get_lines_changed_since_review asks the gateway for a comparison
SameCommit(last_review, head_sha) == last_review.commit_id = head_sha

\* mutant: a failed comparison counts as a significant change
LinesChangedFailsOpen(last_review, head_sha, ok, files) ==
    IF last_review.commit_id = head_sha THEN 0
    ELSE IF ok THEN TotalChanges(files)
    ELSE LINES_CHANGE_THRESHOLD + 1

\* get_lines_changed_since_review, given the gateway's answer where one is asked for
get_lines_changed_since_review(last_review, head_sha, ok, files) ==
    IF SameCommit(last_review, head_sha) THEN 0
    ELSE IF ok THEN TotalChanges(files) ELSE 0

\* mutant: the threshold is not strict
SignificantAtThreshold(lines) == lines >= LINES_CHANGE_THRESHOLD

\* check_significant_update
check_significant_update(lines) == lines > LINES_CHANGE_THRESHOLD

\* mutant: the lines are counted before the force flag is looked at
ChecksUpdateEagerly(force, existing) == existing # None

\* should_proceed_with_review reaches check_significant_update
ChecksUpdate(force, existing) == ~force /\ existing # None

\* should_proceed_with_review
should_proceed_with_review(force, existing, lines) ==
    IF force THEN TRUE
    ELSE IF existing # None THEN check_significant_update(lines)
    ELSE TRUE

\* user_content of generate_review
ReviewUserContent(d, existing) ==
    <<Chunk("Please review this PR diff:\n\n", 29)>> \o d \o
    (IF existing # None
     THEN <<Chunk("\n\nPrevious review:\n", 19)>> \o existing.body
     ELSE <<>>)

\* mutant: the suggestion prompt never carries the previous review
SuggestionUserContentBare(d, existing) ==
    <<Chunk("Please analyze this diff and provide line-specific suggestions:\n\n", 65)>> \o d

\* user_content of generate_line_suggestions
SuggestionUserContent(d, existing) ==
    <<Chunk("Please analyze this diff and provide line-specific suggestions:\n\n", 65)>> \o d \o
    (IF existing # None
     THEN <<Chunk("\n\nPrevious review context:\n", 27)>> \o existing.body
     ELSE <<>>)

\* mutant: the parsed value is returned without the isinstance test
generate_line_suggestions_unchecked(ok, text) ==
    IF ~ok THEN <<>>
    ELSE IF ~text.parses THEN <<>>
    ELSE text.items

\* json.loads and the isinstance(suggestions, list) test of generate_line_suggestions
generate_line_suggestions(ok, text) ==
    IF ~ok THEN <<>>
    ELSE IF ~text.parses THEN <<>>
    ELSE IF text.isarray THEN text.items ELSE <<>>

\* --------------------------------------------------------------- state
VARIABLES
    \* the Source Control Gateway's pull request
    reviews,          \* pr.get_reviews(), in list order
    comments,         \* the anchored review comments on the pull request
    head,             \* pr.head.sha
    \* the process
    env,              \* os.environ, the four required variables
    FORCE_REVIEW,     \* the module's configuration flag
    pc,               \* where main() is
    exit_status,      \* the process's exit status once pc = "done"
    existing_review,  \* main's existing_review
    comparison,       \* comparison.files of get_lines_changed_since_review
    lines_changed,    \* check_significant_update's lines_changed, -1 before it is set
    proceed,          \* what should_proceed_with_review returned
    diff,             \* main's diff
    review_text,      \* main's review_text
    suggestions,      \* main's suggestions
    diff_files,       \* the file list the diff was rendered from
    suggestions_text, \* the completion text generate_line_suggestions parsed
    messages,         \* the user messages sent to the Completion Service, in order
    pr_files,         \* the keys of post_review_with_suggestions's pr_files
    idx,              \* the position of the suggestion loop
    \* history
    log,              \* the gateway and completion calls of this run, in order
    last_step,        \* the step of main() this run took last
    run,              \* the number of this run
    last_post         \* the last PR-level review an earlier or this run posted

gateway == <<reviews, comments, head>>

locals == <<existing_review, comparison, lines_changed, proceed, diff, review_text,
            suggestions, pr_files, idx, diff_files, suggestions_text, messages>>

vars == <<reviews, comments, head, env, FORCE_REVIEW, pc, exit_status, existing_review,
          comparison, lines_changed, proceed, diff, review_text, suggestions, pr_files,
          idx, diff_files, suggestions_text, messages, log, last_step, run, last_post>>

RequiredVars == {"OPENAI_API_KEY", "GIT_TOKEN", "GIT_REPOSITORY", "PR_NUMBER"}

\* a variable is unset or empty (""), set ("v"), or set to a number ("7")
Envs ==
    {e \in [RequiredVars -> {"", "v", "7"}] :
        \A k \in RequiredVars \ {"PR_NUMBER"} : e[k] \in {"", "v"}}

GoodEnv == [k \in RequiredVars |-> IF k = "PR_NUMBER" THEN "7" ELSE "v"]

NoPost == [id |-> 0, run |-> 0, head |-> 0, count |-> 0]

Call(step, name, ok) == [step |-> step, call |-> name, ok |-> ok]

FreshLocals ==
    /\ existing_review = None
    /\ comparison = <<>>
    /\ lines_changed = -1
    /\ proceed = FALSE
    /\ diff = <<>>
    /\ review_text = <<>>
    /\ suggestions = <<>>
    /\ pr_files = {}
    /\ idx = 0
    /\ diff_files = <<>>
    /\ suggestions_text = NotJson
    /\ messages = <<>>

\* one run against a pull request in any state
Init ==
    /\ reviews \in ReviewLists
    /\ comments = <<>>
    /\ head = LatestCommit
    /\ env \in Envs
    /\ FORCE_REVIEW \in BOOLEAN
    /\ pc = "validate"
    /\ exit_status = 0
    /\ FreshLocals
    /\ log = <<>>
    /\ last_step = "start"
    /\ run = 1
    /\ last_post = NoPost

\* mutant: the suggestions are generated before the narrative
StepAfterSwapped(step) ==
    CASE step = "validate" -> "init"
      [] step = "init" -> "history"
      [] step = "history" -> "policy"
      [] step = "policy" -> "diff"
      [] step = "diff" -> "suggest"
      [] step = "suggest" -> "narrative"
      [] step = "narrative" -> "post"
      [] step = "post" -> "files"
      [] step = "files" -> "loop"
      [] OTHER -> "done"

\* the order of main's statements
StepAfter(step) ==
    CASE step = "validate" -> "init"
      [] step = "init" -> "history"
      [] step = "history" -> "policy"
      [] step = "policy" -> "diff"
      [] step = "diff" -> "narrative"
      [] step = "narrative" -> "suggest"
      [] step = "suggest" -> "post"
      [] step = "post" -> "files"
      [] step = "files" -> "loop"
      [] OTHER -> "done"

\* sys.exit(code), or main returning (code 0)
Exit(code) ==
    /\ pc' = "done"
    /\ exit_status' = code

\* mutant: GIT_TOKEN is not among the required variables
validate_environment_without_token ==
    /\ pc = "validate"
    /\ last_step' = "validate"
    /\ LET missing_vars == {v \in RequiredVars \ {"GIT_TOKEN"} : env[v] = ""}
       IN IF missing_vars # {} THEN Exit(1)
          ELSE pc' = StepAfter("validate") /\ UNCHANGED exit_status
    /\ UNCHANGED <<gateway, env, FORCE_REVIEW, locals, log, run, last_post>>

\* validate_environment
validate_environment ==
    /\ pc = "validate"
    /\ last_step' = "validate"
    /\ LET missing_vars == {v \in RequiredVars : env[v] = ""}
       IN IF missing_vars # {} THEN Exit(1)
          ELSE pc' = StepAfter("validate") /\ UNCHANGED exit_status
    /\ UNCHANGED <<gateway, env, FORCE_REVIEW, locals, log, run, last_post>>

\* main, from loading the configuration to the initialised clients
initialize_clients ==
    /\ pc = "init"
    /\ last_step' = "init"
    /\ IF env["PR_NUMBER"] # "7"
       THEN \* int(os.environ.get("PR_NUMBER")) raises ValueError, uncaught
            Exit(1) /\ UNCHANGED log
       ELSE \E ok \in BOOLEAN :
              /\ log' = Append(log, Call("init", "get_pull", ok))
              /\ IF ok THEN pc' = StepAfter("init") /\ UNCHANGED exit_status ELSE Exit(1)
    /\ UNCHANGED <<gateway, env, FORCE_REVIEW, locals, run, last_post>>

\* existing_review = check_existing_agent_review(pr)
history_lookup ==
    /\ pc = "history"
    /\ last_step' = "history"
    /\ \E ok \in BOOLEAN :
         /\ log' = Append(log, Call("history", "get_reviews", ok))
         /\ existing_review' = check_existing_agent_review(ok, reviews)
    /\ pc' = StepAfter("history")
    /\ UNCHANGED <<gateway, env, FORCE_REVIEW, exit_status, comparison, lines_changed,
                   proceed, diff, review_text, suggestions, pr_files, idx, diff_files,
                   suggestions_text, messages, run, last_post>>

\* the gateway's answers to repo.compare and pr.get_files
FileAnswers == {[ok |-> FALSE, files |-> <<>>]} \cup {[ok |-> TRUE, files |-> fl] : fl \in FileLists}

\* if not should_proceed_with_review(pr, existing_review): return
policy_decision ==
    /\ pc = "policy"
    /\ last_step' = "policy"
    /\ IF ChecksUpdate(FORCE_REVIEW, existing_review)
       THEN IF SameCommit(existing_review, head)
            THEN /\ lines_changed' = get_lines_changed_since_review(existing_review, head, TRUE, <<>>)
                 /\ UNCHANGED <<comparison, log>>
            ELSE \E a \in FileAnswers :
                   /\ log' = Append(log, Call("policy", "compare", a.ok))
                   /\ comparison' = a.files
                   /\ lines_changed' = get_lines_changed_since_review(existing_review, head, a.ok, a.files)
       ELSE UNCHANGED <<lines_changed, comparison, log>>
    /\ proceed' = should_proceed_with_review(FORCE_REVIEW, existing_review, lines_changed')
    /\ IF proceed' THEN pc' = StepAfter("policy") /\ UNCHANGED exit_status ELSE Exit(0)
    /\ UNCHANGED <<gateway, env, FORCE_REVIEW, existing_review, diff, review_text,
                   suggestions, pr_files, idx, diff_files, suggestions_text, messages,
                   run, last_post>>

\* mutant: the test of the empty diff is dropped
DiffIsEmptyIgnored(d) == FALSE

\* not diff.strip()
DiffIsEmpty(d) == StripIsEmpty(d)

\* main's "Get PR diff" and its `if not diff.strip(): return`
diff_extraction ==
    /\ pc = "diff"
    /\ last_step' = "diff"
    /\ IF existing_review # None
       THEN \* get_diff_since_prev_review(pr, existing_review)
            /\ IF SameCommit(existing_review, head)
               THEN /\ diff' = <<>>
                    /\ UNCHANGED <<log, diff_files>>
               ELSE \E a \in FileAnswers :
                      /\ log' = Append(log, Call("diff", "compare", a.ok))
                      /\ diff_files' = a.files
                      /\ diff' = IF a.ok THEN DiffSince(a.files) ELSE <<>>
            /\ IF DiffIsEmpty(diff') THEN Exit(0)
               ELSE pc' = StepAfter("diff") /\ UNCHANGED exit_status
       ELSE \* get_pr_diff(pr): a failure of pr.get_files() is caught nowhere
            \E a \in FileAnswers :
              /\ log' = Append(log, Call("diff", "get_files", a.ok))
              /\ diff_files' = a.files
              /\ diff' = IF a.ok THEN PrDiff(a.files) ELSE <<>>
              /\ IF ~a.ok THEN Exit(1)
                 ELSE IF DiffIsEmpty(diff') THEN Exit(0)
                 ELSE pc' = StepAfter("diff") /\ UNCHANGED exit_status
    /\ UNCHANGED <<gateway, env, FORCE_REVIEW, existing_review, comparison, lines_changed,
                   proceed, review_text, suggestions, pr_files, idx, suggestions_text,
                   messages, run, last_post>>

\* mutant: a failed narrative call is answered with an empty text and the run goes on
narrative_generation_continues ==
    /\ pc = "narrative"
    /\ last_step' = "narrative"
    /\ \E ok \in BOOLEAN :
         /\ log' = Append(log, [step |-> "narrative", call |-> "chat", ok |-> ok])
         /\ IF ok THEN review_text' \in Narratives ELSE review_text' = <<>>
    /\ messages' = Append(messages, ReviewUserContent(diff, existing_review))
    /\ pc' = "suggest"
    /\ UNCHANGED <<reviews, comments, head, env, FORCE_REVIEW, exit_status, existing_review,
                   comparison, lines_changed, proceed, diff, suggestions, pr_files, idx,
                   diff_files, suggestions_text, run, last_post>>

\* review_text = generate_review(diff, client, existing_review)
narrative_generation ==
    /\ pc = "narrative"
    /\ last_step' = "narrative"
    /\ \E ok \in BOOLEAN :
         /\ log' = Append(log, Call("narrative", "chat", ok))
         /\ IF ok
            THEN /\ review_text' \in Narratives
                 /\ pc' = StepAfter("narrative")
                 /\ UNCHANGED exit_status
            ELSE /\ Exit(1)
                 /\ UNCHANGED review_text
    /\ messages' = Append(messages, ReviewUserContent(diff, existing_review))
    /\ UNCHANGED <<gateway, env, FORCE_REVIEW, existing_review, comparison, lines_changed,
                   proceed, diff, suggestions, pr_files, idx, diff_files, suggestions_text,
                   run, last_post>>

\* suggestions = generate_line_suggestions(diff, client, existing_review)
suggestion_generation ==
    /\ pc = "suggest"
    /\ last_step' = "suggest"
    /\ \E ok \in BOOLEAN : \E text \in (IF ok THEN SuggestionTexts ELSE {suggestions_text}) :
         /\ log' = Append(log, Call("suggest", "chat", ok))
         /\ suggestions_text' = text
         /\ suggestions' = generate_line_suggestions(ok, text)
    /\ messages' = Append(messages, SuggestionUserContent(diff, existing_review))
    /\ pc' = StepAfter("suggest")
    /\ UNCHANGED <<gateway, env, FORCE_REVIEW, exit_status, existing_review, comparison,
                   lines_changed, proceed, diff, review_text, pr_files, idx, diff_files,
                   run, last_post>>

\* mutant: the review is posted without the header
post_review_without_header ==
    /\ pc = "post"
    /\ last_step' = "post"
    /\ \E ok \in BOOLEAN :
         /\ log' = Append(log, Call("post", "create_review", ok))
         /\ IF ok
            THEN /\ reviews' = Append(reviews,
                        Review(Len(reviews) + 1, review_text, MaxSubmitted(reviews) + 1, head))
                 /\ last_post' = [id |-> Len(reviews) + 1, run |-> run, head |-> head,
                                  count |-> Len(reviews) + 1]
                 /\ IF suggestions # <<>> THEN pc' = StepAfter("post") /\ UNCHANGED exit_status
                    ELSE Exit(0)
            ELSE /\ Exit(1)
                 /\ UNCHANGED <<reviews, last_post>>
    /\ UNCHANGED <<comments, head, env, FORCE_REVIEW, locals, run>>

\* post_review_with_suggestions: pr.create_review and `if suggestions:`
post_review ==
    /\ pc = "post"
    /\ last_step' = "post"
    /\ \E ok \in BOOLEAN :
         /\ log' = Append(log, Call("post", "create_review", ok))
         /\ IF ok
            THEN /\ reviews' = Append(reviews,
                        Review(Len(reviews) + 1, ReviewHeader \o review_text,
                               MaxSubmitted(reviews) + 1, head))
                 /\ last_post' = [id |-> Len(reviews) + 1, run |-> run, head |-> head,
                                  count |-> Len(reviews) + 1]
                 /\ IF suggestions # <<>> THEN pc' = StepAfter("post") /\ UNCHANGED exit_status
                    ELSE Exit(0)
            ELSE /\ Exit(1)
                 /\ UNCHANGED <<reviews, last_post>>
    /\ UNCHANGED <<comments, head, env, FORCE_REVIEW, locals, run>>

\* post_review_with_suggestions: pr_files = {file.filename: file for file in pr.get_files()}
list_pr_files ==
    /\ pc = "files"
    /\ last_step' = "files"
    /\ \E a \in FileAnswers :
         /\ log' = Append(log, Call("files", "get_files", a.ok))
         /\ IF a.ok
            THEN /\ pr_files' = {a.files[i].filename : i \in DOMAIN a.files}
                 /\ idx' = 1
                 /\ pc' = StepAfter("files")
                 /\ UNCHANGED exit_status
            ELSE /\ Exit(1)
                 /\ UNCHANGED <<pr_files, idx>>
    /\ UNCHANGED <<gateway, env, FORCE_REVIEW, existing_review, comparison, lines_changed,
                   proceed, diff, review_text, suggestions, diff_files, suggestions_text,
                   messages, run, last_post>>

\* str(v) inside an f-string
Format(v) == IF v.t = "str" THEN <<Chunk(v.s, v.n)>> ELSE <<Chunk(v.t, 1)>>

\* the f-string comment_body: marker, " **Suggestion:**", the fenced suggestion_text,
\* "**Reason:** ", explanation
CommentBody(suggestion_text, explanation) ==
    <<Chunk(MARKER, 1), Chunk(" **Suggestion:** fence ", 21)>> \o Format(suggestion_text)
    \o <<Chunk(" fence **Reason:** ", 18)>> \o Format(explanation)

\* `if filename and line_num and suggestion_text:` then `if filename in pr_files:`
Postable(suggestion, files) ==
    LET filename == Get(suggestion, "file", JNone)
        line_num == Get(suggestion, "line", JNone)
        suggestion_text == Get(suggestion, "suggestion", JStr("", 0))
    IN /\ Truthy(filename) /\ Truthy(line_num) /\ Truthy(suggestion_text)
       /\ Hashable(filename)
       /\ filename.t = "str" /\ filename.s \in files

\* the handler of one iteration can itself run: suggestion.get exists
HandlerRuns(suggestion) == suggestion.isdict

\* post_review_with_suggestions: one iteration of `for suggestion in suggestions:`
process_suggestion ==
    /\ pc = "loop"
    /\ last_step' = "loop"
    /\ idx <= Len(suggestions)
    /\ LET suggestion == suggestions[idx]
       IN IF ~HandlerRuns(suggestion)
          THEN \* suggestion.get raises AttributeError, and so does the handler's
               \* own suggestion.get: the outer handler calls sys.exit(1)
               /\ Exit(1)
               /\ UNCHANGED <<comments, log, idx>>
          ELSE /\ IF Postable(suggestion, pr_files)
                  THEN \E ok \in (IF Get(suggestion, "line", JNone).t = "int"
                                  THEN BOOLEAN ELSE {FALSE}) :
                         /\ log' = Append(log, Call("loop", "create_review_comment", ok))
                         /\ comments' =
                              IF ok
                              THEN Append(comments,
                                     [body |-> CommentBody(Get(suggestion, "suggestion", JStr("", 0)),
                                                           Get(suggestion, "explanation", JStr("", 0))),
                                      commit_id |-> head,
                                      path |-> Get(suggestion, "file", JNone).s,
                                      position |-> Get(suggestion, "line", JNone).n])
                              ELSE comments
                  ELSE UNCHANGED <<comments, log>>
               /\ idx' = idx + 1
               /\ IF idx' > Len(suggestions) THEN Exit(0)
                  ELSE UNCHANGED <<pc, exit_status>>
    /\ UNCHANGED <<reviews, head, env, FORCE_REVIEW, existing_review, comparison,
                   lines_changed, proceed, diff, review_text, suggestions, pr_files,
                   diff_files, suggestions_text, messages, run, last_post>>

\* main()
Next ==
    \/ validate_environment
    \/ initialize_clients
    \/ history_lookup
    \/ policy_decision
    \/ diff_extraction
    \/ narrative_generation
    \/ suggestion_generation
    \/ post_review
    \/ list_pr_files
    \/ process_suggestion

Spec == Init /\ [][Next]_vars

\* ------------------------------------------------- successive runs
FirstCommit == CHOOSE c \in Commits : \A d \in Commits : c <= d

\* a pull request just opened, before the agent ever ran on it
InitRuns ==
    /\ reviews = <<>>
    /\ comments = <<>>
    /\ head = FirstCommit
    /\ env = GoodEnv
    /\ FORCE_REVIEW = FALSE
    /\ pc = "validate"
    /\ exit_status = 0
    /\ FreshLocals
    /\ log = <<>>
    /\ last_step = "start"
    /\ run = 1
    /\ last_post = NoPost

\* the repository event starts the script again: a fresh process
new_run ==
    /\ pc = "done"
    /\ run < MaxRuns
    /\ run' = run + 1
    /\ pc' = "validate"
    /\ exit_status' = 0
    /\ existing_review' = None
    /\ comparison' = <<>>
    /\ lines_changed' = -1
    /\ proceed' = FALSE
    /\ diff' = <<>>
    /\ review_text' = <<>>
    /\ suggestions' = <<>>
    /\ pr_files' = {}
    /\ idx' = 0
    /\ diff_files' = <<>>
    /\ suggestions_text' = NotJson
    /\ messages' = <<>>
    /\ log' = <<>>
    /\ last_step' = "start"
    /\ UNCHANGED <<gateway, env, FORCE_REVIEW, last_post>>

\* before a run reads the pull request the author pushes a commit: pr.head.sha moves
push ==
    /\ pc = "validate"
    /\ head + 1 \in Commits
    /\ head' = head + 1
    /\ UNCHANGED <<reviews, comments, env, FORCE_REVIEW, pc, exit_status, locals, log, last_step,
                   run, last_post>>

\* before a run reads the pull request somebody else submits a review whose body
\* holds the glyph
external_review ==
    /\ pc = "validate"
    /\ Len(reviews) < MaxReviews
    /\ reviews' = Append(reviews,
                    Review(Len(reviews) + 1, AgentBody, MaxSubmitted(reviews) + 1, head))
    /\ UNCHANGED <<comments, head, env, FORCE_REVIEW, pc, exit_status, locals, log, last_step,
                   run, last_post>>

NextRuns ==
    \/ Next
    \/ new_run
    \/ push
    \/ external_review

SpecRuns == InitRuns /\ [][NextRuns]_vars

\* ---------------------------------------------------------- the claims
LogHas(step, name, ok) ==
    \E i \in DOMAIN log : log[i] = Call(step, name, ok)

Called(step, name) == LogHas(step, name, TRUE) \/ LogHas(step, name, FALSE)

\* should_proceed_with_review has returned in this run
PolicyEvaluated == last_step \notin {"start", "validate", "init", "history"}

\* C1: the re-review decision is true whenever the force flag is set, true when the
\* flag is unset and no agent review exists, and with the flag unset and an agent
\* review present it is true exactly when the lines changed exceed
\* LINES_CHANGE_THRESHOLD; the comparison is strict: 11 proceeds and 10 does not.
C1_PolicyDecision ==
    PolicyEvaluated =>
        /\ FORCE_REVIEW => proceed
        /\ (~FORCE_REVIEW /\ existing_review = None) => proceed
        /\ (~FORCE_REVIEW /\ existing_review # None) =>
              /\ proceed <=> (lines_changed > LINES_CHANGE_THRESHOLD)
              /\ lines_changed = 11 => proceed
              /\ lines_changed = 10 => ~proceed

C1_Witness ==
    /\ last_step = "policy"
    /\ ~FORCE_REVIEW
    /\ existing_review # None
    /\ lines_changed = 10
    /\ ~proceed
    /\ pc = "done"

\* C5: while the decision is evaluated the comparison is asked of the gateway only
\* when the force flag is unset and an agent review exists; on the force path and on
\* the no-history path the decision is reached without any comparison call and
\* without the lines ever being counted.
C5_LazyComparison ==
    /\ Called("policy", "compare") => (~FORCE_REVIEW /\ existing_review # None)
    /\ (PolicyEvaluated /\ (FORCE_REVIEW \/ existing_review = None)) =>
          /\ ~Called("policy", "compare")
          /\ lines_changed = -1
          /\ proceed

C5_Witness ==
    /\ last_step = "policy"
    /\ FORCE_REVIEW
    /\ existing_review # None
    /\ existing_review.commit_id # head
    /\ ~Called("policy", "compare")

\* the sum of additions + deletions over the files of a comparison
SumOver(files) ==
    LET S[i \in 0..Len(files)] ==
            IF i = 0 THEN 0 ELSE S[i - 1] + files[i].additions + files[i].deletions
    IN S[Len(files)]

\* C6: counting the lines changed since a review gives 0, and asks for no
\* comparison, when the review's commit is the head commit; otherwise, when the
\* comparison succeeds, it gives the sum of additions plus deletions over every file
\* of the comparison, which is >= 0.
C6_LinesChanged ==
    (last_step = "policy" /\ ~FORCE_REVIEW /\ existing_review # None) =>
        IF existing_review.commit_id = head
        THEN lines_changed = 0 /\ ~Called("policy", "compare")
        ELSE /\ Called("policy", "compare")
             /\ LogHas("policy", "compare", TRUE) =>
                   /\ lines_changed = SumOver(comparison)
                   /\ lines_changed >= 0

C6_Witness ==
    /\ last_step = "policy"
    /\ LogHas("policy", "compare", TRUE)
    /\ Len(comparison) = 2
    /\ lines_changed = 11

\* C7: a gateway failure while the reviews are listed leaves no agent review found,
\* and a gateway failure of the comparison leaves 0 lines changed; neither failure
\* ends the run: the next step (the decision) is taken with that value and the exit
\* status stays zero.
C7_HistoryFailuresRecovered ==
    /\ LogHas("history", "get_reviews", FALSE) =>
          /\ existing_review = None
          /\ last_step = "history" => (pc = "policy" /\ exit_status = 0)
          /\ PolicyEvaluated => proceed
    /\ LogHas("policy", "compare", FALSE) =>
          /\ lines_changed = 0
          /\ ~proceed
          /\ exit_status = 0

C7_Witness ==
    /\ LogHas("policy", "compare", FALSE)
    /\ last_step = "policy"
    /\ pc = "done"
    /\ exit_status = 0

\* the positions of the reviews whose body holds the marker
Matching == {i \in DOMAIN reviews : Contains(reviews[i].body, MARKER)}

\* C8: when the reviews are listed, the lookup finds nothing if no body holds the
\* marker; otherwise it finds a review whose body holds the marker, whose submitted
\* timestamp is the greatest among those, and which is the first such in list order.
\* A review without the marker is never found.
C8_LatestAgentReview ==
    (last_step = "history" /\ LogHas("history", "get_reviews", TRUE)) =>
        IF Matching = {} THEN existing_review = None
        ELSE \E i \in Matching :
               /\ existing_review = reviews[i]
               /\ \A j \in Matching :
                    /\ reviews[j].submitted_at <= reviews[i].submitted_at
                    /\ reviews[j].submitted_at = reviews[i].submitted_at => i <= j

C8_Witness ==
    /\ last_step = "history"
    /\ LogHas("history", "get_reviews", TRUE)
    /\ Len(reviews) = 2
    /\ Matching = {1, 2}
    /\ reviews[1].submitted_at = reviews[2].submitted_at
    /\ existing_review = reviews[1]

\* the place of a step in the chain of main()
RankOf ==
    [init |-> 0, history |-> 1, policy |-> 2, diff |-> 3, narrative |-> 4,
     suggest |-> 5, post |-> 6, files |-> 7, loop |-> 8]

Rank(e) == RankOf[e.step]

\* a call of the step was made, or was made and answered, before the i-th call
Before(i, step) == \E k \in 1..(i - 1) : log[k].step = step

BeforeOk(i, step) == \E k \in 1..(i - 1) : log[k].step = step /\ log[k].ok

\* C9: in every run the calls go out in the order review-history lookup, decision
\* (with its comparison, if any), diff extraction, narrative completion, suggestion
\* completion, PR-level review post, anchored comment posts; a call of a later step
\* is made only after the calls of the earlier steps it builds on have returned.
C9_CallOrder ==
    /\ \A i \in 1..(Len(log) - 1) :
          \/ Rank(log[i]) < Rank(log[i + 1])
          \/ (log[i].step = "loop" /\ log[i + 1].step = "loop")
    /\ \A i \in DOMAIN log :
          /\ Rank(log[i]) >= 2 => Before(i, "history")
          /\ log[i].step = "narrative" => BeforeOk(i, "diff")
          /\ log[i].step = "suggest" => BeforeOk(i, "narrative")
          /\ log[i].step = "post" => (BeforeOk(i, "narrative") /\ Before(i, "suggest"))
          /\ log[i].step = "loop" => BeforeOk(i, "post")

C9_Witness ==
    /\ pc = "done"
    /\ LogHas("policy", "compare", TRUE)
    /\ LogHas("diff", "compare", TRUE)
    /\ LogHas("narrative", "chat", TRUE)
    /\ LogHas("suggest", "chat", TRUE)
    /\ LogHas("post", "create_review", TRUE)
    /\ Len(comments) = 2

\* C10: if the narrative completion call fails the run ends with a non-zero exit
\* status, the suggestion completion call is never made, and neither a PR-level
\* review nor an anchored comment is posted in that run.
C10_NarrativeFailureFatal ==
    LogHas("narrative", "chat", FALSE) =>
        /\ pc = "done"
        /\ exit_status # 0
        /\ ~Called("suggest", "chat")
        /\ ~Called("post", "create_review")
        /\ ~Called("loop", "create_review_comment")
        /\ last_post.run # run
        /\ comments = <<>>

C10_Witness ==
    /\ LogHas("narrative", "chat", FALSE)
    /\ existing_review # None
    /\ pc = "done"
    /\ exit_status = 1

\* C3: in the publish step a validation miss or a posting failure on one suggestion
\* is skipped, whatever the parsed array holds: once the loop over the suggestions
\* has started, every suggestion of the list is processed and the run ends with
\* exit status zero.
C3_EverySuggestionProcessed ==
    (pc = "done" /\ LogHas("files", "get_files", TRUE)) =>
        /\ idx = Len(suggestions) + 1
        /\ exit_status = 0

\* C4: a run ends with a non-zero exit status only when a required environment input
\* is missing (or unusable), client initialization fails, the narrative completion
\* call fails or the top-level post fails; and the publish step succeeds whenever the
\* top-level post succeeded.
C4_NonZeroOnlyWhenFatal ==
    /\ (pc = "done" /\ exit_status # 0) =>
          \/ \E v \in RequiredVars : env[v] = ""
          \/ env["PR_NUMBER"] # "7"
          \/ LogHas("init", "get_pull", FALSE)
          \/ LogHas("narrative", "chat", FALSE)
          \/ LogHas("post", "create_review", FALSE)
    /\ (pc = "done" /\ LogHas("post", "create_review", TRUE)) => exit_status = 0

\* the review an earlier run posted is still the last thing that happened to the
\* pull request: same head commit, no review added since
StillReviewed ==
    /\ last_post.id # 0
    /\ last_post.run < run
    /\ head = last_post.head
    /\ Len(reviews) = last_post.count

\* C2: with the force flag unset, once a run has posted its PR-level review at head
\* commit H, every later run that still sees head H and no further review finds
\* that review as the latest agent review, makes no completion call and posts
\* neither a PR-level review nor an anchored comment.
C2_NoRedundantReview ==
    (~FORCE_REVIEW /\ StillReviewed) =>
        /\ PolicyEvaluated => existing_review = reviews[last_post.id]
        /\ last_step = "history" => existing_review = reviews[last_post.id]
        /\ \A i \in DOMAIN log :
              log[i].call \notin {"chat", "create_review", "create_review_comment"}

\* C11: the suggestion completion never ends the run and never raises: the parsed
\* array is returned when the completion text parses to an array, and an empty
\* sequence when the call fails, when the text does not parse ("not json") or when
\* the parsed value is no array; the run then goes on to publish.
C11_SuggestionsBestEffort ==
    last_step = "suggest" =>
        /\ pc = "post"
        /\ exit_status = 0
        /\ LogHas("suggest", "chat", FALSE) => suggestions = <<>>
        /\ LogHas("suggest", "chat", TRUE) =>
              /\ (suggestions_text.parses /\ suggestions_text.isarray) =>
                    suggestions = suggestions_text.items
              /\ ~suggestions_text.parses => suggestions = <<>>
              /\ ~suggestions_text.isarray => suggestions = <<>>
              /\ suggestions_text = NotJson => suggestions = <<>>

C11_Witness ==
    /\ last_step = "suggest"
    /\ LogHas("suggest", "chat", TRUE)
    /\ suggestions_text = BareObject
    /\ suggestions = <<>>
    /\ pc = "post"

\* the reviews on the pull request when this run started
ReviewsAtStart ==
    IF last_post.run = run THEN SubSeq(reviews, 1, last_post.count - 1) ELSE reviews

\* the same run with the reviews listed: the review it finds is at the head commit,
\* so it counts 0 lines or renders an empty diff, and posts nothing
TwinFinds == check_existing_agent_review(TRUE, ReviewsAtStart)

TwinPostsNothing == TwinFinds # None /\ SameCommit(TwinFinds, head)

NothingPosted ==
    /\ ~Called("post", "create_review")
    /\ ~Called("loop", "create_review_comment")
    /\ reviews = ReviewsAtStart
    /\ comments = <<>>

\* C12: every recoverable failure does less: a run in which the listing of the
\* reviews, a comparison, the suggestion completion or its parsing, or the post of
\* one anchored comment fails posts no more PR-level reviews and no more anchored
\* comments than the same run without that failure.
C12_FailuresDoLess ==
    /\ (LogHas("history", "get_reviews", FALSE) /\ TwinPostsNothing) => NothingPosted
    /\ LogHas("policy", "compare", FALSE) => NothingPosted
    /\ LogHas("diff", "compare", FALSE) => NothingPosted
    /\ (Called("suggest", "chat") /\ ~(suggestions_text.parses /\ suggestions_text.isarray)) =>
          comments = <<>>
    /\ Len(comments) = Cardinality({i \in DOMAIN log : log[i] = Call("loop", "create_review_comment", TRUE)})

\* the per-file blocks in list order, the separator between consecutive files
RECURSIVE Joined(_)
Joined(files) ==
    IF files = <<>> THEN <<>>
    ELSE IF Len(files) = 1 THEN FileBlock(Head(files))
    ELSE FileBlock(Head(files)) \o Separator \o Joined(Tail(files))

\* p is t cut after some character
IsPrefix(p, t) ==
    /\ Len(p) <= Len(t)
    /\ \A i \in DOMAIN p :
          /\ p[i].s = t[i].s
          /\ p[i].n <= t[i].n
          /\ i < Len(p) => p[i].n = t[i].n

\* the gateway answered the request for the file list the diff is rendered from
DiffRendered ==
    /\ last_step = "diff"
    /\ LogHas("diff", "get_files", TRUE) \/ LogHas("diff", "compare", TRUE)

\* C13: for every ordered list of changed files the rendered diff is at most
\* MAX_INPUT_LENGTH characters long, is a prefix of the untruncated concatenation
\* (blocks in gateway order, the separator between consecutive files and none after
\* the last), equals that concatenation when it is no longer than MAX_INPUT_LENGTH,
\* and is empty for the empty list.
C13_RenderedDiffBounded ==
    DiffRendered =>
        LET whole == Joined(diff_files)
        IN /\ TextLen(diff) <= MAX_INPUT_LENGTH
           /\ IsPrefix(diff, whole)
           /\ TextLen(whole) <= MAX_INPUT_LENGTH => diff = whole
           /\ TextLen(whole) > MAX_INPUT_LENGTH => TextLen(diff) = MAX_INPUT_LENGTH
           /\ diff_files = <<>> => diff = <<>>

C13_Witness ==
    /\ DiffRendered
    /\ LogHas("diff", "get_files", TRUE)
    /\ diff_files = <<FileA, FileB>>
    /\ TextLen(Joined(diff_files)) > MAX_INPUT_LENGTH
    /\ TextLen(diff) = MAX_INPUT_LENGTH
    /\ diff[Len(diff)].n < FileB.patch[1].n

\* C14: the rendering of the full pull request and the rendering of a comparison
\* are one algorithm: from the same ordered list of changed files both give the
\* same payload, whichever of the two the run used.
C14_SameRendering ==
    DiffRendered =>
        /\ diff = PrDiff(diff_files)
        /\ diff = DiffSince(diff_files)

C14_Witness ==
    /\ DiffRendered
    /\ LogHas("diff", "compare", TRUE)
    /\ diff_files = <<FileB, FileA>>
    /\ diff = PrDiff(diff_files)
    /\ TextLen(diff) = MAX_INPUT_LENGTH

\* file, line and suggestion text are present and non-empty
Present(e, k) == e.isdict /\ k \in e.keys /\ Truthy(e.val[k])

Valid(e) ==
    /\ Present(e, "file") /\ Present(e, "line") /\ Present(e, "suggestion")
    /\ e.val["file"].t = "str"
    /\ e.val["file"].s \in pr_files

Expected == SelectSeq(suggestions, Valid)

\* C15: when the PR-level post succeeds and no anchored post fails, the anchored
\* comments the run posted are, in the order of the completion's array, exactly the
\* suggestions whose file, line and suggestion text are present and non-empty and
\* whose file is in the pull request's file set, each at its own file and line
\* against the head commit; no other suggestion gives a comment.
C15_CommentsAreValidSuggestions ==
    (/\ pc = "done"
     /\ LogHas("post", "create_review", TRUE)
     /\ ~LogHas("loop", "create_review_comment", FALSE)) =>
        /\ Len(comments) = Len(Expected)
        /\ \A i \in DOMAIN comments :
              /\ i <= Len(Expected)
              /\ comments[i].path = Expected[i].val["file"].s
              /\ comments[i].position = Expected[i].val["line"].n
              /\ comments[i].commit_id = head

\* C16: when one of the four required environment inputs is missing or empty the
\* run ends with a non-zero exit status before any gateway or completion call is
\* made, and nothing is posted.
C16_MissingInputFatal ==
    (\E v \in RequiredVars : env[v] = "") =>
        /\ log = <<>>
        /\ messages = <<>>
        /\ last_post = NoPost
        /\ comments = <<>>
        /\ last_step \in {"start", "validate"}
        /\ last_step = "validate" => (pc = "done" /\ exit_status # 0)

C16_Witness ==
    /\ env["GIT_TOKEN"] = ""
    /\ \A v \in RequiredVars \ {"GIT_TOKEN"} : env[v] # ""
    /\ last_step = "validate"
    /\ pc = "done"
    /\ exit_status = 1

\* the PR-level posts a log holds
Posts(l) == {i \in DOMAIN l : l[i].call = "create_review"}

\* one step of a run leaves every review and comment that exists as it is, and adds
\* a review only by the one successful top-level post
StepKeepsHistory ==
    /\ Cardinality(Posts(log')) <= 1
    /\ Len(reviews') >= Len(reviews)
    /\ SubSeq(reviews', 1, Len(reviews)) = reviews
    /\ Len(comments') >= Len(comments)
    /\ SubSeq(comments', 1, Len(comments)) = comments
    /\ IF \E i \in Posts(log') \ Posts(log) : log'[i].ok
       THEN /\ Len(reviews') = Len(reviews) + 1
            /\ Contains(reviews'[Len(reviews')].body, MARKER)
       ELSE reviews' = reviews

\* C17: a run creates at most one PR-level review, and exactly one when the
\* top-level post succeeds; the body of that review holds the marker; no step of a
\* run edits or deletes a review or a comment that is already on the pull request.
C17_OneMarkedReview == [][StepKeepsHistory]_vars

C17_Witness ==
    /\ LogHas("post", "create_review", TRUE)
    /\ Len(reviews) = 3
    /\ SubSeq(reviews, 1, 2) \in ReviewLists
    /\ Contains(reviews[3].body, MARKER)
    /\ Len(comments) = 2
    /\ pc = "done"

\* C18: when the diff the run obtained is empty or only whitespace the run ends
\* with exit status zero, makes no completion call and posts nothing; so it is when
\* the decision was true (the force flag set and the latest agent review at the
\* head commit) and when the comparison of the diff extraction fails.
C18_EmptyDiffEndsQuietly ==
    /\ (last_step = "diff" /\ ~LogHas("diff", "get_files", FALSE) /\ StripIsEmpty(diff)) =>
          /\ pc = "done"
          /\ exit_status = 0
          /\ messages = <<>>
          /\ NothingPosted
    /\ (FORCE_REVIEW /\ existing_review # None /\ existing_review.commit_id = head
        /\ PolicyEvaluated /\ last_step # "policy") =>
          (last_step = "diff" /\ pc = "done" /\ exit_status = 0 /\ NothingPosted)
    /\ LogHas("diff", "compare", FALSE) =>
          (last_step = "diff" /\ pc = "done" /\ exit_status = 0 /\ NothingPosted)
    /\ \A i \in DOMAIN log : log[i].call = "chat" => ~StripIsEmpty(diff)

C18_Witness ==
    /\ FORCE_REVIEW
    /\ existing_review # None
    /\ existing_review.commit_id = head
    /\ proceed
    /\ last_step = "diff"
    /\ diff = <<>>
    /\ pc = "done"
    /\ exit_status = 0

\* the run reached diff extraction
DiffReached == last_step \in {"diff", "narrative", "suggest", "post", "files", "loop"}

\* the message is its lead, the diff and, after a label, the body of the review found
CarriesPrevious(m) ==
    \E k \in DOMAIN m :
        /\ m[k].s \in {"\n\nPrevious review:\n", "\n\nPrevious review context:\n"}
        /\ SubSeq(m, k + 1, Len(m)) = existing_review.body
        /\ SubSeq(m, 2, k - 1) = diff

Chats == {i \in DOMAIN log : log[i].call = "chat"}

\* C19: in every run that reaches diff extraction the diff comes from the commit
\* comparison (review commit to head commit) exactly when an agent review was found,
\* the force path included, and from the file list of the pull request otherwise;
\* and the body of the previous review is appended to the user prompt of both
\* completion calls exactly when an agent review was found.
C19_IncrementalWhenReviewed ==
    /\ DiffReached =>
          IF existing_review # None
          THEN /\ ~Called("diff", "get_files")
               /\ Called("diff", "compare") <=> existing_review.commit_id # head
          ELSE /\ Called("diff", "get_files")
               /\ ~Called("diff", "compare")
    /\ Len(messages) = Cardinality(Chats)
    /\ \A i \in DOMAIN messages :
          /\ CarriesPrevious(messages[i]) <=> existing_review # None
          /\ existing_review = None => SubSeq(messages[i], 2, Len(messages[i])) = diff

C19_Witness ==
    /\ FORCE_REVIEW
    /\ existing_review # None
    /\ LogHas("diff", "compare", TRUE)
    /\ ~Called("policy", "compare")
    /\ Len(messages) = 2
    /\ CarriesPrevious(messages[1])
    /\ CarriesPrevious(messages[2])

=============================================================================
